---- MODULE Spec2Model ----
\* In-memory todo HTTP service (cmd/main.go): the shared todos slice, the
\* three todo handlers and /health, each handler split at its accesses to
\* shared memory (the slice header, the backing array, the clock).
EXTENDS Integers, Sequences, FiniteSets, TLC

\* ------------------------------------------------------------------ bounds
MaxClock == 2
MaxReqs == 3

Procs == {"h1", "h2"}
SeqProcs == {"h1"}

\* --------------------------------------------------------------- constants
StatusPending == "pending"
StatusCompleted == "completed"
StatusOK == 200
StatusCreated == 201
StatusBadRequest == 400
StatusNotFound == 404
\* the connection is aborted by net/http after a handler panic: no status
Panicked == 0 - 1

\* time.Time{} (the zero value) is before every reading of the clock
ZeroTime == 0
\* a timestamp chosen by a client, never a reading of the server clock
ClientTime == MaxClock + 7

\* ------------------------------------------------------------ JSON values
JStr(s) == [str |-> s, time |-> << >>]
\* a JSON string in RFC 3339 format denoting the instant t
JTime(t) == [str |-> "rfc3339", time |-> <<t>>]
JNum(n) == [num |-> n]
JNull == [null |-> TRUE]

IsJString(v) == "str" \in DOMAIN v
IsJNull(v) == "null" \in DOMAIN v

\* ------------------------------------------------------------------- Todo
\* CompletedAt is *time.Time: << >> is nil, <<t>> points to the instant t
ZeroTodo ==
  [ID |-> "", Title |-> "", Description |-> "", Status |-> "",
   CreatedAt |-> ZeroTime, UpdatedAt |-> ZeroTime, CompletedAt |-> << >>]

UuidStrings == <<"u1", "u2", "u3", "u4", "u5", "u6", "u7", "u8">>
Uuid_Constant(n) == UuidStrings[1]

\* uuid.New().String(): the n-th identifier generated, a non-empty string
Uuid(n) == UuidStrings[n]

\* a path is a sequence of pieces of text: the characters of "/todos/" and,
\* after them, the rest of the path as one piece (none when it is empty)
TodosPrefix == <<"/", "t", "o", "d", "o", "s", "/">>
PathOf(id) == TodosPrefix \o (IF id = "" THEN << >> ELSE <<id>>)

\* r.URL.Path[len("/todos/"):]
PathId(path) ==
  LET rest == SubSeq(path, Len(TodosPrefix) + 1, Len(path))
  IN IF rest = << >> THEN "" ELSE rest[1]

\* ---------------------------------------------------------------- decoding
\* encoding/json into a string field (TodoStatus is a string too)
DecString(obj, key) ==
  IF key \notin DOMAIN obj \/ IsJNull(obj[key]) THEN [err |-> FALSE, v |-> ""]
  ELSE IF IsJString(obj[key]) THEN [err |-> FALSE, v |-> obj[key].str]
  ELSE [err |-> TRUE, v |-> ""]

\* encoding/json into a time.Time field
DecTime(obj, key) ==
  IF key \notin DOMAIN obj \/ IsJNull(obj[key]) THEN [err |-> FALSE, v |-> ZeroTime]
  ELSE IF IsJString(obj[key]) /\ obj[key].time # << >>
       THEN [err |-> FALSE, v |-> obj[key].time[1]]
  ELSE [err |-> TRUE, v |-> ZeroTime]

\* encoding/json into a *time.Time field
DecTimePtr(obj, key) ==
  IF key \notin DOMAIN obj \/ IsJNull(obj[key]) THEN [err |-> FALSE, v |-> << >>]
  ELSE IF IsJString(obj[key]) /\ obj[key].time # << >>
       THEN [err |-> FALSE, v |-> obj[key].time]
  ELSE [err |-> TRUE, v |-> << >>]

\* decodeJSON[Todo]
decodeTodo(body) ==
  IF ~body.wellformed THEN [err |-> TRUE, v |-> ZeroTodo]
  ELSE LET o == body.obj
           id == DecString(o, "id")
           ti == DecString(o, "title")
           de == DecString(o, "description")
           st == DecString(o, "status")
           cr == DecTime(o, "created_at")
           up == DecTime(o, "updated_at")
           co == DecTimePtr(o, "completed_at")
       IN [err |-> id.err \/ ti.err \/ de.err \/ st.err \/ cr.err \/ up.err \/ co.err,
           v |-> [ID |-> id.v, Title |-> ti.v, Description |-> de.v,
                  Status |-> st.v, CreatedAt |-> cr.v, UpdatedAt |-> up.v,
                  CompletedAt |-> co.v]]

decodeUpdate_NoErr(body) ==
  [err |-> FALSE, v |-> [Status |-> DecString(body.obj, "status").v]]

\* decodeJSON[struct{ Status TodoStatus }]
decodeUpdate(body) ==
  IF ~body.wellformed THEN [err |-> TRUE, v |-> [Status |-> ""]]
  ELSE LET st == DecString(body.obj, "status")
       IN [err |-> st.err, v |-> [Status |-> st.v]]

\* ---------------------------------------------------------------- encoding
\* json.Marshal of a Todo: completed_at is omitted when the pointer is nil
EncodeTodo(t) ==
  LET keys == {"id", "title", "description", "status", "created_at", "updated_at"}
              \cup (IF t.CompletedAt = << >> THEN {} ELSE {"completed_at"})
  IN [k \in keys |->
        CASE k = "id" -> JStr(t.ID)
          [] k = "title" -> JStr(t.Title)
          [] k = "description" -> JStr(t.Description)
          [] k = "status" -> JStr(t.Status)
          [] k = "created_at" -> JTime(t.CreatedAt)
          [] k = "updated_at" -> JTime(t.UpdatedAt)
          [] k = "completed_at" -> JTime(t.CompletedAt[1])]

RespNone == [code |-> 0, kind |-> "none", todo |-> << >>, list |-> << >>]
RespEmpty(code) == [code |-> code, kind |-> "empty", todo |-> << >>, list |-> << >>]
\* http.Error: a plain-text body
RespError(code) == [code |-> code, kind |-> "text", todo |-> << >>, list |-> << >>]
RespTodo(code, t) == [code |-> code, kind |-> "todo", todo |-> <<EncodeTodo(t)>>, list |-> << >>]
RespList(code, l) == [code |-> code, kind |-> "list", todo |-> << >>, list |-> l]

\* ------------------------------------------------------------------ inputs
Malformed == [wellformed |-> FALSE, obj |-> [x \in {} |-> JNull]]
Object(o) == [wellformed |-> TRUE, obj |-> o]

PostBodies ==
  { Malformed,
    Object([title |-> JStr("A"), description |-> JStr("B")]),
    Object([title |-> JStr("A"), description |-> JStr("B"),
            id |-> JStr("client-id"), status |-> JStr(StatusCompleted),
            created_at |-> JTime(ClientTime), updated_at |-> JTime(ClientTime),
            completed_at |-> JTime(ClientTime)]),
    Object([title |-> JNum(5)]) }

PatchBodies ==
  { Malformed,
    Object([status |-> JStr(StatusCompleted)]),
    Object([status |-> JStr(StatusPending)]),
    Object([status |-> JStr("archived")]),
    Object([title |-> JStr("A")]),
    Object([status |-> JNum(5)]) }

PathIds == {"", Uuid(1), Uuid(2)}
PatchPaths == {PathOf(id) : id \in PathIds}

NoBody == Object([x \in {} |-> JNull])
NoRequest == [method |-> "", path |-> << >>, body |-> NoBody]

\* ------------------------------------------------------------------- state
VARIABLES
  clock,    \* time.Now()
  issued,   \* number of identifiers uuid.New() has returned
  todos,    \* the slice header of the captured variable todos
  heap,     \* the backing arrays allocated so far, by address
  pc,       \* each handler goroutine's position
  req,      \* the request a handler is serving
  todo,     \* the handler's local todo
  now,      \* the PATCH handler's local now
  rng,      \* the slice header a handler has read (range copy, append argument)
  idx,      \* the range loop's index i
  resp,     \* the response written
  changed,  \* whether the store has changed since the handler was entered
  served    \* number of requests the server has accepted

vars == <<clock, issued, todos, heap, pc, req, todo, now, rng, idx, resp, changed, served>>

NilSlice == [ptr |-> 0, len |-> 0, cap |-> 0]

\* the elements of a slice, in order
Elems(h, s) == IF s.len = 0 THEN << >> ELSE SubSeq(h[s.ptr], 1, s.len)

\* what GET /todos would list
Store == Elems(heap, todos)

Init ==
  /\ clock = 1
  /\ issued = 0
  /\ todos = NilSlice
  /\ heap = << >>
  /\ pc = [p \in Procs |-> "idle"]
  /\ req = [p \in Procs |-> NoRequest]
  /\ todo = [p \in Procs |-> ZeroTodo]
  /\ now = [p \in Procs |-> ZeroTime]
  /\ rng = [p \in Procs |-> NilSlice]
  /\ idx = [p \in Procs |-> 0]
  /\ resp = [p \in Procs |-> RespNone]
  /\ changed = [p \in Procs |-> FALSE]
  /\ served = 0

\* the server clock advances between any two steps
Tick ==
  /\ clock < MaxClock
  /\ clock' = clock + 1
  /\ UNCHANGED <<served, issued, todos, heap, pc, req, todo, now, rng, idx, resp, changed>>

\* a handler is entered: the request; the store is as it is on entry
Enter(p, r) ==
  /\ pc[p] \in {"idle", "done"}
  /\ served < MaxReqs
  /\ served' = served + 1
  /\ req' = [req EXCEPT ![p] = r]
  /\ changed' = [changed EXCEPT ![p] = FALSE]

\* a step that writes shared memory: which handlers have seen the store change
Track(h, s) ==
  changed' = [q \in Procs |-> changed[q] \/ Elems(h, s) # Store]

\* the garbage collector: a backing array no slice header refers to is gone
Gc(h, s, r) ==
  [a \in DOMAIN h |-> IF a = s.ptr \/ (\E q \in Procs : r[q].ptr = a) THEN h[a] ELSE << >>]

\* the handler's local variables
Frame(p, t, n, s, i) ==
  /\ todo' = [todo EXCEPT ![p] = t]
  /\ now' = [now EXCEPT ![p] = n]
  /\ rng' = [rng EXCEPT ![p] = s]
  /\ idx' = [idx EXCEPT ![p] = i]

\* the handler returns after writing response r; its frame is gone
Return(p, r) ==
  /\ pc' = [pc EXCEPT ![p] = "done"]
  /\ resp' = [resp EXCEPT ![p] = r]
  /\ Frame(p, ZeroTodo, ZeroTime, NilSlice, 0)

Goto(p, label) ==
  /\ pc' = [pc EXCEPT ![p] = label]
  /\ resp' = [resp EXCEPT ![p] = RespNone]

\* ---------------------------------------------------------------- /health
Health(p) ==
  /\ Enter(p, [method |-> "GET", path |-> <<"/health">>, body |-> NoBody])
  /\ Return(p, RespEmpty(StatusOK))
  /\ UNCHANGED <<clock, issued, todos, heap>>

\* ------------------------------------------------------------ POST /todos
\* runtime growslice for append of one element: 0, 1, 2, 4, 8, ...
GrowCap(c) == IF c = 0 THEN 1 ELSE 2 * c

NewArray_NoCopy(elems, c) ==
  [k \in 1..c |-> IF k = Len(elems) THEN elems[k] ELSE ZeroTodo]

\* a new backing array of capacity c holding elems, zero beyond them
NewArray(elems, c) ==
  [k \in 1..c |-> IF k <= Len(elems) THEN elems[k] ELSE ZeroTodo]

\* lines 62-70: decode the body, then todo.ID and todo.CreatedAt
PostDecode(p) ==
  \E body \in PostBodies :
    LET d == decodeTodo(body) IN
    /\ Enter(p, [method |-> "POST", path |-> <<"/todos">>, body |-> body])
    /\ IF d.err
       THEN /\ Return(p, RespError(StatusBadRequest))
            /\ UNCHANGED issued
       ELSE /\ issued' = issued + 1
            /\ Goto(p, "post_stamp")
            /\ Frame(p, [d.v EXCEPT !.ID = Uuid(issued + 1), !.CreatedAt = clock],
                     ZeroTime, NilSlice, 0)
    /\ UNCHANGED <<clock, todos, heap>>

PostStamp_KeepStatus(p) ==
  /\ pc[p] = "post_stamp"
  /\ todo' = [todo EXCEPT ![p] = [@ EXCEPT !.UpdatedAt = clock]]
  /\ pc' = [pc EXCEPT ![p] = "post_append"]
  /\ UNCHANGED <<served, clock, issued, todos, heap, req, now, rng, idx, resp, changed>>

\* lines 71-72: todo.UpdatedAt and todo.Status
PostStamp(p) ==
  /\ pc[p] = "post_stamp"
  /\ todo' = [todo EXCEPT ![p] = [@ EXCEPT !.UpdatedAt = clock, !.Status = StatusPending]]
  /\ pc' = [pc EXCEPT ![p] = "post_append"]
  /\ UNCHANGED <<served, clock, issued, todos, heap, req, now, rng, idx, resp, changed>>

\* line 75: the argument todos of append is read
PostAppendRead(p) ==
  /\ pc[p] = "post_append"
  /\ rng' = [rng EXCEPT ![p] = todos]
  /\ pc' = [pc EXCEPT ![p] = "post_grow"]
  /\ UNCHANGED <<served, clock, issued, todos, heap, req, todo, now, idx, resp, changed>>

\* line 75: append stores the element, in place when there is capacity and
\* in a new backing array (a copy of the slice it was given) when not
PostAppendGrow(p) ==
  LET s == rng[p] IN
  /\ pc[p] = "post_grow"
  /\ IF s.len < s.cap
     THEN /\ rng' = [rng EXCEPT ![p] = [s EXCEPT !.len = s.len + 1]]
          /\ heap' = Gc([heap EXCEPT ![s.ptr][s.len + 1] = todo[p]], todos, rng')
     ELSE /\ rng' = [rng EXCEPT ![p] =
                       [ptr |-> Len(heap) + 1, len |-> s.len + 1, cap |-> GrowCap(s.cap)]]
          /\ heap' = Gc(Append(heap, NewArray(Append(Elems(heap, s), todo[p]), GrowCap(s.cap))),
                        todos, rng')
  /\ Track(heap', todos)
  /\ pc' = [pc EXCEPT ![p] = "post_assign"]
  /\ UNCHANGED <<served, clock, issued, todos, req, todo, now, idx, resp>>

\* lines 75-81: the result of append is assigned to todos; 201 with the todo
PostAppendAssign(p) ==
  /\ pc[p] = "post_assign"
  /\ todos' = rng[p]
  /\ Return(p, RespTodo(StatusCreated, todo[p]))
  /\ heap' = Gc(heap, todos', rng')
  /\ Track(heap', todos')
  /\ UNCHANGED <<served, clock, issued, req>>

\* ------------------------------------------------------------- GET /todos
\* line 87: the argument todos of respondJSON is read
GetRead(p) ==
  /\ Enter(p, [method |-> "GET", path |-> <<"/todos">>, body |-> NoBody])
  /\ Goto(p, "get_encode")
  /\ Frame(p, ZeroTodo, ZeroTime, todos, 0)
  /\ UNCHANGED <<clock, issued, todos, heap>>

GetEncode_Clear(p) ==
  /\ pc[p] = "get_encode"
  /\ Return(p, RespList(StatusOK, [k \in 1..rng[p].len |-> EncodeTodo(heap[rng[p].ptr][k])]))
  /\ todos' = NilSlice
  /\ heap' = Gc(heap, todos', rng')
  /\ Track(heap', todos')
  /\ UNCHANGED <<served, clock, issued, req>>

\* lines 44-48: the elements are read and encoded
GetEncode(p) ==
  /\ pc[p] = "get_encode"
  /\ Return(p, RespList(StatusOK, [k \in 1..rng[p].len |-> EncodeTodo(heap[rng[p].ptr][k])]))
  /\ heap' = Gc(heap, todos, rng')
  /\ UNCHANGED <<served, clock, issued, todos, req, changed>>

\* ---------------------------------------------------------- PATCH /todos/
\* the handler's id and update, both functions of the request
IdOf(p) == PathId(req[p].path)
UpdateOf(p) == decodeUpdate(req[p].body).v

\* lines 96-105: the id from the path, the update from the body
PatchDecode(p) ==
  \E path \in PatchPaths, body \in PatchBodies :
    /\ Enter(p, [method |-> "PATCH", path |-> path, body |-> body])
    /\ IF decodeUpdate(body).err
       THEN Return(p, RespError(StatusBadRequest))
       ELSE /\ Goto(p, "patch_now")
            /\ Frame(p, ZeroTodo, ZeroTime, NilSlice, 0)
    /\ UNCHANGED <<clock, issued, todos, heap>>

\* lines 107-108: now := time.Now()
PatchNow(p) ==
  /\ pc[p] = "patch_now"
  /\ now' = [now EXCEPT ![p] = clock]
  /\ pc' = [pc EXCEPT ![p] = "patch_range"]
  /\ UNCHANGED <<served, clock, issued, todos, heap, req, todo, rng, idx, resp, changed>>

\* line 109: the range expression todos is evaluated once
PatchRange(p) ==
  /\ pc[p] = "patch_range"
  /\ rng' = [rng EXCEPT ![p] = todos]
  /\ idx' = [idx EXCEPT ![p] = 0]
  /\ pc' = [pc EXCEPT ![p] = "patch_iter"]
  /\ UNCHANGED <<served, clock, issued, todos, heap, req, todo, now, resp, changed>>

\* line 110: todo.ID == id
Matches_Any(t, id) == TRUE

Matches(t, id) == t.ID = id

Updated_KeepTime(t, status, n) ==
  [t EXCEPT !.Status = status,
            !.CompletedAt = IF status = StatusCompleted THEN <<n>> ELSE @]

Updated_CompletedOnce(t, status, n) ==
  [t EXCEPT !.Status = status,
            !.UpdatedAt = n,
            !.CompletedAt = IF status = StatusCompleted /\ @ = << >> THEN <<n>> ELSE @]

Updated_ResetCreated(t, status, n) ==
  [t EXCEPT !.Status = status,
            !.CreatedAt = n,
            !.UpdatedAt = n,
            !.CompletedAt = IF status = StatusCompleted THEN <<n>> ELSE @]

\* lines 111-115: the copy of the matched element, modified
Updated(t, status, n) ==
  [t EXCEPT !.Status = status,
            !.UpdatedAt = n,
            !.CompletedAt = IF status = StatusCompleted THEN <<n>> ELSE @]

\* lines 109-115 and 128-131: one iteration copies element i and compares
\* its ID; the loop running out answers 404
PatchIter(p) ==
  /\ pc[p] = "patch_iter"
  /\ IF idx[p] >= rng[p].len
     THEN /\ Return(p, RespError(StatusNotFound))
     ELSE LET t == heap[rng[p].ptr][idx[p] + 1] IN
          IF Matches(t, IdOf(p))
          THEN /\ todo' = [todo EXCEPT ![p] = Updated(t, UpdateOf(p).Status, now[p])]
               /\ pc' = [pc EXCEPT ![p] = "patch_index"]
               /\ UNCHANGED <<now, rng, idx, resp>>
          ELSE /\ idx' = [idx EXCEPT ![p] = idx[p] + 1]
               /\ UNCHANGED <<pc, todo, now, rng, resp>>
  /\ heap' = Gc(heap, todos, rng')
  /\ UNCHANGED <<served, clock, issued, todos, req, changed>>

\* line 116: todos[i] reads the variable todos and checks i against its
\* length; out of range panics and net/http aborts the connection
PatchIndex(p) ==
  /\ pc[p] = "patch_index"
  /\ IF idx[p] >= todos.len
     THEN Return(p, RespEmpty(Panicked))
     ELSE /\ rng' = [rng EXCEPT ![p] = todos]
          /\ pc' = [pc EXCEPT ![p] = "patch_store"]
          /\ UNCHANGED <<todo, now, idx, resp>>
  /\ heap' = Gc(heap, todos, rng')
  /\ UNCHANGED <<served, clock, issued, todos, req, changed>>

\* lines 116-124: the element is stored; 200 with the todo
PatchStore(p) ==
  /\ pc[p] = "patch_store"
  /\ Return(p, RespTodo(StatusOK, todo[p]))
  /\ heap' = Gc([heap EXCEPT ![rng[p].ptr][idx[p] + 1] = todo[p]], todos, rng')
  /\ Track(heap', todos)
  /\ UNCHANGED <<served, clock, issued, todos, req>>

\* ---------------------------------------------------------- specifications
\* handlers run as concurrent goroutines, interleaved at every step
Next ==
  \/ Tick
  \/ \E p \in Procs : Health(p)
  \/ \E p \in Procs : PostDecode(p)
  \/ \E p \in Procs : PostStamp(p)
  \/ \E p \in Procs : PostAppendRead(p)
  \/ \E p \in Procs : PostAppendGrow(p)
  \/ \E p \in Procs : PostAppendAssign(p)
  \/ \E p \in Procs : GetRead(p)
  \/ \E p \in Procs : GetEncode(p)
  \/ \E p \in Procs : PatchDecode(p)
  \/ \E p \in Procs : PatchNow(p)
  \/ \E p \in Procs : PatchRange(p)
  \/ \E p \in Procs : PatchIter(p)
  \/ \E p \in Procs : PatchIndex(p)
  \/ \E p \in Procs : PatchStore(p)

Spec == Init /\ [][Next]_vars

\* requests are handled one at a time
NextSeq ==
  \/ Tick
  \/ \E p \in SeqProcs : Health(p)
  \/ \E p \in SeqProcs : PostDecode(p)
  \/ \E p \in SeqProcs : PostStamp(p)
  \/ \E p \in SeqProcs : PostAppendRead(p)
  \/ \E p \in SeqProcs : PostAppendGrow(p)
  \/ \E p \in SeqProcs : PostAppendAssign(p)
  \/ \E p \in SeqProcs : GetRead(p)
  \/ \E p \in SeqProcs : GetEncode(p)
  \/ \E p \in SeqProcs : PatchDecode(p)
  \/ \E p \in SeqProcs : PatchNow(p)
  \/ \E p \in SeqProcs : PatchRange(p)
  \/ \E p \in SeqProcs : PatchIter(p)
  \/ \E p \in SeqProcs : PatchIndex(p)
  \/ \E p \in SeqProcs : PatchStore(p)

SpecSeq == Init /\ [][NextSeq]_vars

TypeOK ==
  /\ clock \in 1..MaxClock
  /\ issued \in 0..MaxReqs
  /\ served \in 0..MaxReqs
  /\ todos.len <= todos.cap

\* ------------------------------------------------------------- properties
\* handler p returns in this step
Returns(p) == pc'[p] = "done" /\ (pc[p] # "done" \/ served' # served)

\* what the client sent, read off the body itself
ClientString(body, key) ==
  IF body.wellformed /\ key \in DOMAIN body.obj /\ "str" \in DOMAIN body.obj[key]
  THEN body.obj[key].str ELSE ""

\* the body is JSON and gives a string or a null for each of the keys it has
Decodable(body, keys) ==
  /\ body.wellformed
  /\ \A k \in DOMAIN body.obj \cap keys : "num" \notin DOMAIN body.obj[k]

TodoKeys == {"id", "title", "description", "status", "created_at", "updated_at", "completed_at"}
UpdateKeys == {"status"}

HasId(store, id) == \E k \in 1..Len(store) : store[k].ID = id
FirstIndex(store, id) ==
  CHOOSE k \in 1..Len(store) :
    store[k].ID = id /\ \A j \in 1..(k - 1) : store[j].ID # id

EncodeAll(store) == [k \in 1..Len(store) |-> EncodeTodo(store[k])]

\* C1: with requests handled one at a time, a PATCH with a decodable body
\* {status: s} and an id present in the store answers 200 and leaves the first
\* record with that id with status s, updated_at = now and completed_at = now
\* when s is "completed" (as it was otherwise); the response is that stored
\* record, and a GET /todos answers 200 with the store as it then is.
C1_PatchUpdatesFirstMatch ==
  [][\A p \in SeqProcs :
       /\ ( /\ Returns(p)
            /\ req'[p].method = "PATCH"
            /\ Decodable(req'[p].body, UpdateKeys)
            /\ HasId(Store, PathId(req'[p].path)) )
          => LET s == ClientString(req'[p].body, "status")
                 k == FirstIndex(Store, PathId(req'[p].path))
             IN /\ resp'[p].code = StatusOK
                /\ Len(Store') = Len(Store)
                /\ Store'[k].Status = s
                /\ Store'[k].UpdatedAt = now[p]
                /\ now[p] \in 1..clock
                /\ Store'[k].CompletedAt =
                     IF s = StatusCompleted THEN <<now[p]>> ELSE Store[k].CompletedAt
                /\ resp'[p].kind = "todo"
                /\ resp'[p].todo = <<EncodeTodo(Store'[k])>>
       /\ (Returns(p) /\ req'[p].method = "GET" /\ req'[p].path = <<"/todos">>)
          => /\ resp'[p].code = StatusOK
             /\ resp'[p].list = EncodeAll(Store')
  ]_vars

\* C1 witness: a PATCH of the second todo to "completed" has answered 200
C1_Witness ==
  \E p \in SeqProcs :
    /\ pc[p] = "done" /\ req[p].method = "PATCH" /\ resp[p].code = StatusOK
    /\ Len(Store) = 2
    /\ req[p].path = PathOf(Store[2].ID)
    /\ Store[2].Status = StatusCompleted
    /\ "completed_at" \in DOMAIN resp[p].todo[1]

\* C2: every decodable POST /todos body, whatever it gives for id, status,
\* created_at and updated_at, is answered 201; the store grows by exactly one
\* record, at the end, which is the record returned: its id is the one the
\* server generated, its status "pending", its created_at and updated_at
\* readings of the server clock, its title and description the client's.
C2_PostAppendsServerFields ==
  [][\A p \in SeqProcs :
       ( /\ Returns(p)
         /\ req'[p].method = "POST"
         /\ Decodable(req'[p].body, TodoKeys) )
       => /\ resp'[p].code = StatusCreated
          /\ ~changed[p]
          /\ Len(Store') = Len(Store) + 1
          /\ SubSeq(Store', 1, Len(Store)) = Store
          /\ LET r == Store'[Len(Store')]
             IN /\ r.ID = Uuid(issued)
                /\ r.ID # ""
                /\ r.ID # ClientString(req'[p].body, "id")
                /\ r.Status = StatusPending
                /\ r.CreatedAt \in 1..clock
                /\ r.UpdatedAt \in 1..clock
                /\ r.Title = ClientString(req'[p].body, "title")
                /\ r.Description = ClientString(req'[p].body, "description")
                /\ resp'[p].kind = "todo"
                /\ resp'[p].todo = <<EncodeTodo(r)>>
  ]_vars

\* C2 witness: a POST whose body gave its own id, status and timestamps has
\* answered 201
C2_Witness ==
  \E p \in SeqProcs :
    /\ pc[p] = "done" /\ req[p].method = "POST" /\ resp[p].code = StatusCreated
    /\ ClientString(req[p].body, "status") = StatusCompleted
    /\ ClientString(req[p].body, "id") = "client-id"
    /\ Len(Store) = 2

\* C3: a todo is never deleted: in every execution, interleaved POST and
\* PATCH handlers included, an id held by a record of the store is held by a
\* record of the store in every later state.
C3_NeverDeleted ==
  [][\A k \in 1..Len(Store) : HasId(Store', Store[k].ID)]_vars

\* C4: completed_at is never cleared once set: in every execution,
\* interleaved PATCH handlers included, a stored todo that has completed_at
\* has it in every later state.
C4_CompletedAtNeverCleared ==
  [][\A k \in 1..Len(Store) : \A j \in 1..Len(Store') :
       (Store[k].CompletedAt # << >> /\ Store'[j].ID = Store[k].ID)
       => Store'[j].CompletedAt # << >>]_vars

\* C5: a stored todo has completed_at only if an update-status request with
\* status "completed" has been applied to it: a record that has completed_at
\* after a step had it before the step, or the step is the store of such an
\* update; so a todo just created has none, whatever the body carries.
C5_CompletedAtOnlyByUpdate ==
  [][\A j \in 1..Len(Store') :
       Store'[j].CompletedAt # << >>
       => \/ \E k \in 1..Len(Store) :
               Store[k].ID = Store'[j].ID /\ Store[k].CompletedAt # << >>
          \/ \E p \in Procs :
               /\ pc[p] = "patch_store" /\ pc'[p] = "done"
               /\ ClientString(req[p].body, "status") = StatusCompleted
               /\ PathId(req[p].path) = Store'[j].ID]_vars

\* C6: in every reachable state every stored todo's status is "pending" or
\* "completed".
C6_StatusEnumerated ==
  \A k \in 1..Len(Store) : Store[k].Status \in {StatusPending, StatusCompleted}

\* C7: a PATCH with a decodable body and an id that matches no stored record
\* (the empty id of "/todos/" included) answers 404 and leaves the store as
\* it was when the request came in: same length, same records, same order.
C7_PatchUnknownId ==
  [][\A p \in SeqProcs :
       ( /\ Returns(p)
         /\ req'[p].method = "PATCH"
         /\ Decodable(req'[p].body, UpdateKeys)
         /\ ~HasId(Store, PathId(req'[p].path)) )
       => /\ resp'[p].code = StatusNotFound
          /\ Store' = Store
          /\ ~changed'[p]
  ]_vars

\* C7 witness: a PATCH of "/todos/" has answered 404 on a store of two todos
C7_Witness ==
  \E p \in SeqProcs :
    /\ pc[p] = "done" /\ req[p].method = "PATCH" /\ resp[p].code = StatusNotFound
    /\ req[p].path = TodosPrefix
    /\ Len(Store) = 2

\* C8: a POST /todos or PATCH /todos/{id} whose body fails JSON decoding
\* answers 400 and does not mutate the store, also when the PATCH id matches
\* a stored todo.
C8_DecodeFailureNoMutation ==
  [][\A p \in SeqProcs :
       ( /\ Returns(p)
         /\ \/ req'[p].method = "POST" /\ ~Decodable(req'[p].body, TodoKeys)
            \/ req'[p].method = "PATCH" /\ ~Decodable(req'[p].body, UpdateKeys) )
       => /\ resp'[p].code = StatusBadRequest
          /\ Store' = Store
          /\ ~changed'[p]
  ]_vars

\* C8 witness: a PATCH with a malformed body and the id of a stored todo has
\* answered 400
C8_Witness ==
  \E p \in SeqProcs :
    /\ pc[p] = "done" /\ req[p].method = "PATCH" /\ resp[p].code = StatusBadRequest
    /\ ~req[p].body.wellformed
    /\ HasId(Store, PathId(req[p].path))

\* C9: every todo returned and stored by a successful POST /todos has
\* created_at equal to updated_at, the clock being free to advance between
\* any two steps of the handler.
C9_CreatedEqualsUpdated ==
  \A p \in SeqProcs :
    (pc[p] = "done" /\ req[p].method = "POST" /\ resp[p].code = StatusCreated)
    => /\ resp[p].todo[1]["created_at"] = resp[p].todo[1]["updated_at"]
       /\ Store[Len(Store)].CreatedAt = Store[Len(Store)].UpdatedAt

\* C10: with a non-decreasing clock a todo's updated_at never decreases:
\* every store of an update, interleaved PATCH handlers included, leaves the
\* stored updated_at of each todo at or above what it was just before.
C10_UpdatedAtMonotonic ==
  [][(\E p \in Procs : pc[p] = "patch_store" /\ pc'[p] = "done")
     => \A k \in 1..Len(Store) : \A j \in 1..Len(Store') :
          Store'[j].ID = Store[k].ID => Store'[j].UpdatedAt >= Store[k].UpdatedAt]_vars

\* C11: with requests handled one at a time, after any sequence of requests
\* with exactly N successful POST /todos (N = 0 included), GET /todos answers
\* 200 with exactly N records, in the order in which they were created.
C11_GetListsCreated ==
  [][\A p \in SeqProcs :
       (Returns(p) /\ req'[p].method = "GET" /\ req'[p].path = <<"/todos">>)
       => /\ resp'[p].code = StatusOK
          /\ resp'[p].kind = "list"
          /\ Len(resp'[p].list) = issued
          /\ \A k \in 1..issued : resp'[p].list[k]["id"] = JStr(Uuid(k))
          /\ \A k \in 1..issued :
               resp'[p].list[k]["created_at"].time[1] \in 1..clock
  ]_vars

\* C11 witness: a GET /todos after two successful POSTs has listed two todos
C11_Witness ==
  \E p \in SeqProcs :
    /\ pc[p] = "done" /\ req[p].method = "GET" /\ req[p].path = <<"/todos">>
    /\ issued = 2
    /\ Len(resp[p].list) = 2

\* C12: a successful PATCH /todos/{id} changes only status, updated_at and
\* completed_at of the one matched record: its id, title, description and
\* created_at stay, every other record is unchanged, and the length and order
\* of the store are unchanged.
C12_PatchFrame ==
  [][\A p \in SeqProcs :
       (Returns(p) /\ req'[p].method = "PATCH" /\ resp'[p].code = StatusOK)
       => /\ ~changed[p]
          /\ Len(Store') = Len(Store)
          /\ HasId(Store, PathId(req'[p].path))
          /\ LET m == FirstIndex(Store, PathId(req'[p].path))
             IN \A k \in 1..Len(Store) :
                  IF k = m
                  THEN /\ Store'[k].ID = Store[k].ID
                       /\ Store'[k].Title = Store[k].Title
                       /\ Store'[k].Description = Store[k].Description
                       /\ Store'[k].CreatedAt = Store[k].CreatedAt
                  ELSE Store'[k] = Store[k]
  ]_vars

\* C12 witness: a PATCH of the first of two todos has answered 200 after the
\* clock advanced past the todo's creation
C12_Witness ==
  \E p \in SeqProcs :
    /\ pc[p] = "done" /\ req[p].method = "PATCH" /\ resp[p].code = StatusOK
    /\ Len(Store) = 2
    /\ req[p].path = PathOf(Store[1].ID)
    /\ Store[1].UpdatedAt > Store[1].CreatedAt

\* C13: with a non-decreasing clock every stored todo has created_at at or
\* before updated_at in every reachable state, also when a PATCH handler
\* (which reads the clock before it scans) runs interleaved with the POST
\* handler that creates the todo it updates.
C13_CreatedBeforeUpdated ==
  \A k \in 1..Len(Store) : Store[k].CreatedAt <= Store[k].UpdatedAt

\* C14: in every reachable state, after any interleaving of create and
\* update-status requests, the ids of the stored records are pairwise
\* distinct and non-empty, the generator never returning a value twice.
C14_IdsDistinct ==
  /\ \A k \in 1..Len(Store) : Store[k].ID # ""
  /\ \A j, k \in 1..Len(Store) : j # k => Store[j].ID # Store[k].ID

\* C14 witness: two todos are stored, one handler has created a todo and
\* another has updated one
C14_Witness ==
  /\ Len(Store) = 2
  /\ \E p, q \in Procs :
       /\ p # q
       /\ pc[p] = "done" /\ req[p].method = "POST" /\ resp[p].code = StatusCreated
       /\ pc[q] = "done" /\ req[q].method = "PATCH" /\ resp[q].code = StatusOK

\* C15: GET /todos and /health never change the store (length, order and
\* every field of every record are as before the request); only a successful
\* POST /todos or a successful PATCH /todos/{id} changes it.
C15_ReadsLeaveStore ==
  [][/\ \A p \in SeqProcs :
          req'[p].method = "GET" => (Store' = Store /\ ~changed'[p])
     /\ Store' # Store
        => \E p \in SeqProcs :
             /\ Returns(p)
             /\ \/ req'[p].method = "POST" /\ resp'[p].code = StatusCreated
                \/ req'[p].method = "PATCH" /\ resp'[p].code = StatusOK
  ]_vars

\* C15 witness: a GET /todos has listed a store holding a completed todo
C15_Witness ==
  \E p \in SeqProcs :
    /\ pc[p] = "done" /\ req[p].method = "GET" /\ req[p].path = <<"/todos">>
    /\ Len(resp[p].list) = 1
    /\ Len(Store) = 1
    /\ Store[1].Status = StatusCompleted

\* C16: in every reachable state every stored todo whose status is
\* "completed" has completed_at, equal to its updated_at; also under
\* interleaved PATCH handlers, the store of one record being one step.
C16_CompletedHasTime ==
  \A k \in 1..Len(Store) :
    Store[k].Status = StatusCompleted
    => Store[k].CompletedAt = <<Store[k].UpdatedAt>>

\* C16 witness: a todo that was created with a completed_at of the client's
\* is stored completed by one PATCH while another PATCH of the same id is
\* about to store its own copy
C16_Witness ==
  \E p, q \in Procs : \E k \in 1..Len(Store) :
    /\ p # q
    /\ pc[p] = "done" /\ req[p].method = "PATCH" /\ resp[p].code = StatusOK
    /\ pc[q] = "patch_store"
    /\ req[q].path = req[p].path
    /\ Store[k].ID = PathId(req[p].path)
    /\ Store[k].Status = StatusCompleted
    /\ todo[q].Status = StatusPending

====
